---- MODULE Spec2Model ----
(***************************************************************************)
(* Wikipedia Q&A assistant (src/app.py): a Streamlit script that is re-run *)
(* from top to bottom on every user event.  The model follows one browser  *)
(* session of one server process: the filesystem holding the model         *)
(* artifact, the st.cache_resource store behind load_model, the widget     *)
(* values kept by the session, and the position of the running script.     *)
(***************************************************************************)
EXTENDS Integers, Sequences, FiniteSets, TLC

\* ------------------------------------------------------------ bounds
\* Pages of the knowledge source are up to TruncLen + MaxExcess characters long.
MaxExcess == 1

\* ------------------------------------------------------------ constants
\* content[:6000]
TruncLen == 6000

\* ------------------------------------------------------------ values
\* Optional values (Python None / a value).
None == <<>>
Some(x) == <<x>>
Val(o) == o[1]

\* A text is the first len characters of the source string src in revision rev.
\* Literal and user-typed strings are revision 0 of themselves.
Str(s) == [src |-> s, rev |-> 0, len |-> Len(s)]
\* page.content of the page found for a topic; the revision of a page is
\* identified by its full length n.
Page(t, n) == [src |-> t, rev |-> n, len |-> n]
\* text[:n + 1]: the cut one character late.
SliceLate(text, n) == [text EXCEPT !.len = IF @ < n + 1 THEN @ ELSE n + 1]
\* text[:n]
Slice(text, n) == [text EXCEPT !.len = IF @ < n THEN @ ELSE n]
\* Python truthiness of an optional text (None and "" are falsy).
Truthy(o) == o # None /\ Val(o).len > 0

Topics == {"", "A", "B"}
Questions == {"", "q"}
Actions == {"Summarize Topic", "Ask a Question"}
PageLens == {0, 1, TruncLen} \cup ((TruncLen + 1) .. (TruncLen + MaxExcess))

\* Exceptions wikipedia.page can raise: its own (PageError, DisambiguationError),
\* the transport's (ConnectionError) and any other (KeyError on a malformed reply).
LookupErrors == {"PageError", "DisambiguationError", "ConnectionError", "KeyError"}
\* `except wikipedia.exceptions.WikipediaException`: the library's own only.
IsWikipediaException(e) == e \in {"PageError", "DisambiguationError"}
\* `except Exception` catches every one of them.
IsException(e) == e \in LookupErrors
\* Outcomes of wikipedia.page(topic).content
PageOutcomes(topic) ==
    { [exc |-> "none", content |-> Page(topic, n)] : n \in PageLens }
    \cup { [exc |-> e, content |-> Str("")] : e \in LookupErrors }

\* Outcomes of gdown.download: the file is written, the transfer error is raised,
\* or the call returns without having written the file.
DownloadOutcomes == {"written", "raised", "returned"}
\* Outcomes of Llama(model_path=...) when the file is there: loaded, or raised
\* (a file that is no model, not enough memory).
LlamaOutcomes == {"loaded", "raised"}
\* Raw completions of the engine, as character sequences, and its failure.
RawOutputs == {<<"a">>, <<" ", "a", "\n">>, <<" ">>}
GenOutcomes == { [exc |-> "none", text |-> t] : t \in RawOutputs }
               \cup { [exc |-> "RuntimeError", text |-> <<>>] }

VARIABLES
    fs,          \* filesystem: [dir |-> MODEL_DIR exists, file |-> MODEL_PATH exists]
    cache,       \* st.cache_resource entry of load_model: 0 (none) or the handle
    built,       \* Llama constructions completed in this process
    widgets,     \* session widget values: [topic, action, question]
    rendered,    \* widgets rendered by the current (or, when idle, the last) run
    pc,          \* position of the script: idle, sidebar, topic, content, action, end
    event,       \* the user event that started the current run
    lookup,      \* what wikipedia.page gave the current run, if it was called
    wiki_text,   \* script global wiki_text (line 85)
    llm,         \* script global llm (line 93), 0 when unset
    trace,       \* calls made so far by the current run, in order
    errors,      \* st.error messages shown by the current run
    genArgs,     \* arguments of this run's summarize_content call, if any
    prompt,      \* prompt handed to the engine by this run, if any
    result,      \* text written by st.write(summary / answer) in this run, if any
    status,      \* running, done (reached the last line), crashed (uncaught exception)
    startAbsent, \* history: the artifact was absent when the process started
    downloaded,  \* history: a download has written the artifact
    dlLog,       \* history: the last two download_model calls
    lastFetch    \* history: content returned by the latest fetch of an earlier run

vars == <<fs, cache, built, widgets, rendered, pc, event, lookup, wiki_text, llm, trace,
          errors, genArgs, prompt, result, status, startAbsent, downloaded,
          dlLog, lastFetch>>

process == <<fs, cache, built, startAbsent, downloaded, dlLog>>
script == <<lookup, wiki_text, llm, errors, genArgs, prompt, result>>

\* ------------------------------------------------------------ functions
\* download_model() without the os.path.exists test: it downloads every time.
download_model_always(f, outcome) ==
    [fs |-> [dir |-> TRUE, file |-> (f.file \/ outcome = "written")],
     calls |-> <<"download_model", "gdown.download">>,
     raised |-> (outcome = "raised")]

\* download_model(): the filesystem after the call, the calls made, whether
\* the download raised.
download_model(f, outcome) ==
    LET made == [f EXCEPT !.dir = TRUE]            \* os.makedirs(exist_ok=True)
    IN  IF ~made.file
        THEN [fs |-> [made EXCEPT !.file = (outcome = "written")],
              calls |-> <<"download_model", "gdown.download">>,
              raised |-> (outcome = "raised")]
        ELSE [fs |-> made,
              calls |-> <<"download_model">>,
              raised |-> FALSE]

\* load_model() without @st.cache_resource: every call constructs.
load_model_uncached(c, n, f, outcome) ==
    IF f.file /\ outcome = "loaded"
    THEN [ret |-> n + 1, cache |-> n + 1, built |-> n + 1,
          calls |-> <<"load_model", "Llama">>, raised |-> FALSE]
    ELSE [ret |-> 0, cache |-> c, built |-> n,
          calls |-> <<"load_model", "Llama">>, raised |-> TRUE]

\* load_model() with the construction error swallowed: it returns no handle.
load_model_swallow(c, n, f, outcome) ==
    IF c # 0
    THEN [ret |-> c, cache |-> c, built |-> n,
          calls |-> <<"load_model">>, raised |-> FALSE]
    ELSE IF f.file /\ outcome = "loaded"
    THEN [ret |-> n + 1, cache |-> n + 1, built |-> n + 1,
          calls |-> <<"load_model", "Llama">>, raised |-> FALSE]
    ELSE [ret |-> 0, cache |-> 0, built |-> n,
          calls |-> <<"load_model", "Llama">>, raised |-> FALSE]

\* load_model() under @st.cache_resource: a cached handle is returned without
\* running the body; otherwise Llama(...) is constructed, which raises when the
\* file is missing, and the handle is stored only when the body returned.
load_model(c, n, f, outcome) ==
    IF c # 0
    THEN [ret |-> c, cache |-> c, built |-> n,
          calls |-> <<"load_model">>, raised |-> FALSE]
    ELSE IF f.file /\ outcome = "loaded"
    THEN [ret |-> n + 1, cache |-> n + 1, built |-> n + 1,
          calls |-> <<"load_model", "Llama">>, raised |-> FALSE]
    ELSE [ret |-> 0, cache |-> 0, built |-> n,
          calls |-> <<"load_model", "Llama">>, raised |-> TRUE]

\* get_wiki_content(topic) memoised across reruns: once a page was fetched,
\* that content is returned again.
get_wiki_content_stale(topic, outcome) ==
    IF lastFetch # None
    THEN [ret |-> lastFetch, errors |-> 0,
          calls |-> <<"get_wiki_content">>, raised |-> FALSE]
    ELSE IF outcome.exc = "none"
    THEN [ret |-> Some(Slice(outcome.content, TruncLen)), errors |-> 0,
          calls |-> <<"get_wiki_content", "wikipedia.page">>, raised |-> FALSE]
    ELSE [ret |-> None, errors |-> 1,
          calls |-> <<"get_wiki_content", "wikipedia.page", "st.error">>,
          raised |-> FALSE]

\* get_wiki_content(topic)
get_wiki_content(topic, outcome) ==
    IF outcome.exc = "none"
    THEN [ret |-> Some(Slice(outcome.content, TruncLen)), errors |-> 0,
          calls |-> <<"get_wiki_content", "wikipedia.page">>, raised |-> FALSE]
    ELSE IF IsException(outcome.exc)
    THEN [ret |-> None, errors |-> 1,
          calls |-> <<"get_wiki_content", "wikipedia.page", "st.error">>,
          raised |-> FALSE]
    ELSE [ret |-> None, errors |-> 0,
          calls |-> <<"get_wiki_content", "wikipedia.page">>, raised |-> TRUE]

\* The two prompt templates, as the sequence of their literal and interpolated parts.
AnswerPrompt(content, question) ==
    << Str("\nYou are an AI assistant. Based on the Wikipedia content below,\nanswer the question clearly and concisely.\n\nWikipedia content:\n\"\"\""),
       content,
       Str("\"\"\"\n\nQuestion: "),
       question,
       Str("\nAnswer:\n") >>

SummaryPrompt(topic, content) ==
    << Str("\nSummarize the following Wikipedia content about '"),
       topic,
       Str("' in a clear,\nstructured, and easy-to-read manner.\n\nWikipedia content:\n\"\"\""),
       content,
       Str("\"\"\"\n\nSummary:\n") >>

\* `if question is not None:`
QuestionNotNone(question) == question # None
\* `if question:` (line 45)
QuestionGiven(question) == Truthy(question)

BuildPrompt(topic, content, question) ==
    IF QuestionGiven(question)
    THEN AnswerPrompt(content, Val(question))
    ELSE SummaryPrompt(topic, content)

\* str.strip()
IsSpace(c) == c \in {" ", "\n", "\t"}
RECURSIVE LStrip(_)
LStrip(s) == IF s # <<>> /\ IsSpace(Head(s)) THEN LStrip(Tail(s)) ELSE s
RECURSIVE RStrip(_)
RStrip(s) ==
    IF s # <<>> /\ IsSpace(s[Len(s)]) THEN RStrip(SubSeq(s, 1, Len(s) - 1)) ELSE s
Strip(s) == RStrip(LStrip(s))

\* summarize_content(llm, topic, content, question)
summarize_content(handle, topic, content, question, outcome) ==
    [prompt |-> BuildPrompt(topic, content, question),
     calls |-> <<"summarize_content", "llm">>,
     raised |-> (outcome.exc # "none"),
     ret |-> Strip(outcome.text)]

\* `if topic:` alone, with no test of wiki_text.
ContentUnchecked(text) == TRUE
\* `if wiki_text:` (line 87)
ContentObtained(text) == Truthy(text)

\* `st.button("Get Answer")` alone.
AnswerClicked(clicked, question) == clicked
\* `st.button("Get Answer") and question` (line 108)
AnswerGate(clicked, question) == clicked /\ question # ""

\* ------------------------------------------------------------ the session
\* Streamlit keeps a widget's value only while the widget is rendered: a
\* widget a run did not render starts from its default the next time.
KeptWidgets(w, shown) ==
    [topic |-> IF "topic" \in shown THEN w.topic ELSE "",
     action |-> IF "radio" \in shown THEN w.action ELSE "Summarize Topic",
     question |-> IF "question" \in shown THEN w.question ELSE ""]

\* The run stops: at the last line, or at an uncaught exception.
Finish(how, shown) ==
    /\ pc' = "idle"
    /\ status' = how
    /\ rendered' = shown
    /\ widgets' = KeptWidgets(widgets, shown)

\* A user event re-runs the script from the top with fresh globals.
StartRun(ev, w) ==
    /\ pc = "idle"
    /\ pc' = "sidebar"
    /\ event' = ev
    /\ widgets' = w
    /\ rendered' = {}
    /\ lookup' = None
    /\ wiki_text' = None
    /\ llm' = 0
    /\ trace' = <<>>
    /\ errors' = 0
    /\ genArgs' = None
    /\ prompt' = None
    /\ result' = None
    /\ status' = "running"
    /\ lastFetch' = IF wiki_text # None THEN wiki_text ELSE lastFetch
    /\ UNCHANGED process

\* ------------------------------------------------------------ user events
EnterTopic ==
    \E t \in Topics :
        /\ "topic" \in rendered
        /\ t # widgets.topic
        /\ StartRun("topic", [widgets EXCEPT !.topic = t])

ClickDownload ==
    /\ "sidebar_btn" \in rendered
    /\ StartRun("sidebar", widgets)

SelectAction ==
    \E a \in Actions :
        /\ "radio" \in rendered
        /\ a # widgets.action
        /\ StartRun("radio", [widgets EXCEPT !.action = a])

EnterQuestion ==
    \E q \in Questions :
        /\ "question" \in rendered
        /\ q # widgets.question
        /\ StartRun("question", [widgets EXCEPT !.question = q])

ClickSummary ==
    /\ "summary_btn" \in rendered
    /\ StartRun("summary", widgets)

ClickAnswer ==
    /\ "answer_btn" \in rendered
    /\ StartRun("answer", widgets)

\* ------------------------------------------------------------ the script
\* Lines 77-78, the button was clicked: download_model()
DownloadModel ==
    /\ pc = "sidebar"
    /\ event = "sidebar"
    /\ \E o \in DownloadOutcomes :
        LET r == download_model(fs, o)
            shown == rendered \cup {"sidebar_btn"}
            entry == [before |-> fs.file,
                      started |-> (Len(r.calls) > 1),
                      after |-> r.fs.file,
                      mkdir |-> (r.fs.dir /\ ~fs.dir)]
        IN  /\ fs' = r.fs
            /\ trace' = trace \o r.calls
            /\ downloaded' = (downloaded \/ (r.fs.file /\ ~fs.file))
            /\ dlLog' = (IF dlLog = <<>> THEN <<>> ELSE <<dlLog[Len(dlLog)]>>)
                         \o <<entry>>
            /\ IF r.raised
               THEN Finish("crashed", shown)
               ELSE /\ pc' = "topic"
                    /\ rendered' = shown
                    /\ UNCHANGED <<widgets, status>>
    /\ UNCHANGED <<cache, built, event, startAbsent, lastFetch>>
    /\ UNCHANGED script

\* Line 77, the button was not clicked.
SkipDownload ==
    /\ pc = "sidebar"
    /\ event # "sidebar"
    /\ pc' = "topic"
    /\ rendered' = rendered \cup {"sidebar_btn"}
    /\ UNCHANGED <<widgets, event, trace, status, lastFetch>>
    /\ UNCHANGED process
    /\ UNCHANGED script

\* Lines 81-83, no topic entered.
NoTopic ==
    /\ pc = "topic"
    /\ widgets.topic = ""
    /\ pc' = "end"
    /\ rendered' = rendered \cup {"topic"}
    /\ UNCHANGED <<widgets, event, trace, status, lastFetch>>
    /\ UNCHANGED process
    /\ UNCHANGED script

\* Lines 81-85: wiki_text = get_wiki_content(topic)
FetchContent ==
    /\ pc = "topic"
    /\ widgets.topic # ""
    /\ \E o \in PageOutcomes(widgets.topic) :
        LET r == get_wiki_content(widgets.topic, o)
            shown == rendered \cup {"topic"}
        IN  /\ lookup' = Some(o)
            /\ wiki_text' = r.ret
            /\ errors' = errors + r.errors
            /\ trace' = trace \o r.calls
            /\ IF r.raised
               THEN Finish("crashed", shown)
               ELSE /\ pc' = "content"
                    /\ rendered' = shown
                    /\ UNCHANGED <<widgets, status>>
    /\ UNCHANGED <<event, llm, genArgs, prompt, result, lastFetch>>
    /\ UNCHANGED process

\* Line 87, wiki_text is None or empty.
NoContent ==
    /\ pc = "content"
    /\ ~ContentObtained(wiki_text)
    /\ pc' = "end"
    /\ UNCHANGED <<widgets, rendered, event, trace, status, lastFetch>>
    /\ UNCHANGED process
    /\ UNCHANGED script

\* Line 93: llm = load_model(); an exception it raises ends the run.
LoadStep ==
    \E o \in LlamaOutcomes :
        LET r == load_model(cache, built, fs, o)
        IN  /\ cache' = r.cache
            /\ built' = r.built
            /\ llm' = r.ret
            /\ trace' = trace \o r.calls
            /\ IF r.raised
               THEN Finish("crashed", rendered)
               ELSE /\ pc' = "action"
                    /\ UNCHANGED <<widgets, rendered, status>>

\* The model loaded only in a run started by an action button.
LoadModelOnClick ==
    /\ pc = "content"
    /\ ContentObtained(wiki_text)
    /\ IF event \in {"summary", "answer"}
       THEN LoadStep
       ELSE /\ pc' = "action"
            /\ UNCHANGED <<cache, built, llm, trace, widgets, rendered, status>>
    /\ UNCHANGED <<fs, event, lookup, wiki_text, errors, genArgs, prompt, result,
                   startAbsent, downloaded, dlLog, lastFetch>>

\* Lines 87-93: the expander, then llm = load_model()
LoadModel ==
    /\ pc = "content"
    /\ ContentObtained(wiki_text)
    /\ LoadStep
    /\ UNCHANGED <<fs, event, lookup, wiki_text, errors, genArgs, prompt, result,
                   startAbsent, downloaded, dlLog, lastFetch>>

\* The call of summarize_content and the display of what it returned.
Generate(question, shown) ==
    \E o \in GenOutcomes :
        LET r == summarize_content(llm, Str(widgets.topic), Val(wiki_text),
                                   question, o)
        IN  /\ genArgs' = Some([topic |-> Str(widgets.topic),
                                content |-> Val(wiki_text),
                                question |-> question])
            /\ prompt' = Some(r.prompt)
            /\ trace' = trace \o r.calls
            /\ IF r.raised
               THEN /\ result' = None
                    /\ Finish("crashed", shown)
               ELSE /\ result' = Some(r.ret)
                    /\ pc' = "end"
                    /\ rendered' = shown
                    /\ UNCHANGED <<widgets, status>>

\* Lines 97-100, "Summarize Topic" selected, its button not clicked.
OfferSummary ==
    /\ pc = "action"
    /\ widgets.action = "Summarize Topic"
    /\ event # "summary"
    /\ pc' = "end"
    /\ rendered' = rendered \cup {"radio", "summary_btn"}
    /\ UNCHANGED <<widgets, event, trace, status, lastFetch>>
    /\ UNCHANGED process
    /\ UNCHANGED script

\* Lines 97-104, "Generate Summary" clicked.
GenerateSummary ==
    /\ pc = "action"
    /\ widgets.action = "Summarize Topic"
    /\ event = "summary"
    /\ Generate(None, rendered \cup {"radio", "summary_btn"})
    /\ UNCHANGED <<event, lookup, wiki_text, llm, errors, lastFetch>>
    /\ UNCHANGED process

\* Lines 106-108, "Ask a Question" selected, the gate of line 108 closed.
OfferAnswer ==
    /\ pc = "action"
    /\ widgets.action = "Ask a Question"
    /\ ~AnswerGate(event = "answer", widgets.question)
    /\ pc' = "end"
    /\ rendered' = rendered \cup {"radio", "question", "answer_btn"}
    /\ UNCHANGED <<widgets, event, trace, status, lastFetch>>
    /\ UNCHANGED process
    /\ UNCHANGED script

\* Lines 106-112, "Get Answer" clicked with a question entered.
GetAnswer ==
    /\ pc = "action"
    /\ widgets.action = "Ask a Question"
    /\ AnswerGate(event = "answer", widgets.question)
    /\ Generate(Some(Str(widgets.question)),
                rendered \cup {"radio", "question", "answer_btn"})
    /\ UNCHANGED <<event, lookup, wiki_text, llm, errors, lastFetch>>
    /\ UNCHANGED process

\* Lines 114-115: the script reaches its last line.
EndRun ==
    /\ pc = "end"
    /\ Finish("done", rendered)
    /\ UNCHANGED <<event, trace, lastFetch>>
    /\ UNCHANGED process
    /\ UNCHANGED script

\* ------------------------------------------------------------ specification
\* The first run of a new session: no widget has a value yet; the artifact may
\* or may not be on disk (a file implies its directory).
Init ==
    /\ fs \in { f \in [dir : BOOLEAN, file : BOOLEAN] : f.file => f.dir }
    /\ cache = 0
    /\ built = 0
    /\ widgets = [topic |-> "", action |-> "Summarize Topic", question |-> ""]
    /\ rendered = {}
    /\ pc = "sidebar"
    /\ event = "load"
    /\ lookup = None
    /\ wiki_text = None
    /\ llm = 0
    /\ trace = <<>>
    /\ errors = 0
    /\ genArgs = None
    /\ prompt = None
    /\ result = None
    /\ status = "running"
    /\ startAbsent = ~fs.file
    /\ downloaded = FALSE
    /\ dlLog = <<>>
    /\ lastFetch = None

Next ==
    \/ EnterTopic
    \/ ClickDownload
    \/ SelectAction
    \/ EnterQuestion
    \/ ClickSummary
    \/ ClickAnswer
    \/ DownloadModel
    \/ SkipDownload
    \/ NoTopic
    \/ FetchContent
    \/ NoContent
    \/ LoadModel
    \/ OfferSummary
    \/ GenerateSummary
    \/ OfferAnswer
    \/ GetAnswer
    \/ EndRun

Spec == Init /\ [][Next]_vars

\* ------------------------------------------------------------ the responder alone
\* summarize_content as a function of its arguments: any topic, any content
\* a fetch can return, and a question that is None, empty, blank or a word.
ArgTopics == { Str(t) : t \in Topics }
ArgContents == { Slice(Page(t, n), TruncLen) : t \in Topics \ {""}, n \in PageLens }
ArgQuestions == {None} \cup { Some(Str(q)) : q \in {"", " ", "q"} }

PromptInit ==
    /\ fs = [dir |-> TRUE, file |-> TRUE]
    /\ cache = 1
    /\ built = 1
    /\ widgets = [topic |-> "", action |-> "Summarize Topic", question |-> ""]
    /\ rendered = {}
    /\ pc = "respond"
    /\ event = "call"
    /\ lookup = None
    /\ wiki_text = None
    /\ llm = 1
    /\ trace = <<>>
    /\ errors = 0
    /\ genArgs \in { Some([topic |-> t, content |-> c, question |-> q]) :
                        t \in ArgTopics, c \in ArgContents, q \in ArgQuestions }
    /\ prompt = None
    /\ result = None
    /\ status = "running"
    /\ startAbsent = FALSE
    /\ downloaded = FALSE
    /\ dlLog = <<>>
    /\ lastFetch = None

\* One call summarize_content(llm, topic, content, question).
Respond ==
    /\ pc = "respond"
    /\ \E o \in GenOutcomes :
        LET a == Val(genArgs)
            r == summarize_content(llm, a.topic, a.content, a.question, o)
        IN  /\ prompt' = Some(r.prompt)
            /\ trace' = trace \o r.calls
            /\ result' = IF r.raised THEN None ELSE Some(r.ret)
            /\ status' = IF r.raised THEN "crashed" ELSE "done"
    /\ pc' = "responded"
    /\ UNCHANGED <<widgets, rendered, event, lookup, wiki_text, llm, errors,
                   genArgs, lastFetch>>
    /\ UNCHANGED process

PromptNext == Respond

PromptSpec == PromptInit /\ [][PromptNext]_vars

\* ------------------------------------------------------------ properties
Called(f) == \E i \in 1..Len(trace) : trace[i] = f
Pos(f) == CHOOSE i \in 1..Len(trace) : trace[i] = f
Count(f) == Cardinality({ i \in 1..Len(trace) : trace[i] = f })
Clicks == {"summary", "answer"}
LookupFailed == lookup # None /\ Val(lookup).exc # "none"
LookupOk == lookup # None /\ Val(lookup).exc = "none"

\* C1 (as stated): in an execution that starts with the artifact absent, a load
\* attempt (a Llama construction) happens only once download_model has
\* downloaded the artifact, so never while the artifact is absent.
C1_NoLoadAttemptBeforeDownload ==
    (startAbsent /\ Called("Llama")) => (downloaded /\ fs.file)

\* C1 (amended): in an execution that starts with the artifact absent, the model
\* is loaded (a Llama construction completes, a handle is held) only after
\* download_model has downloaded the artifact; a load attempt made while the
\* artifact is absent is not prevented, it raises and ends the run;
\* download_model is called exactly in the runs started by the sidebar button,
\* and there before load_model.
C1_LoadedOnlyAfterDownload ==
    /\ (startAbsent /\ (cache # 0 \/ llm # 0)) => (downloaded /\ fs.file)
    /\ (Called("Llama") /\ ~fs.file) =>
            (status = "crashed" /\ pc = "idle" /\ llm = 0 /\ cache = 0)
    /\ Called("download_model") <=> (event = "sidebar" /\ pc # "sidebar")
    /\ (Called("download_model") /\ Called("load_model")) =>
            Pos("download_model") < Pos("load_model")

\* A run started by the sidebar button downloaded the absent artifact and then
\* constructed the model.
C1_Witness ==
    /\ startAbsent /\ downloaded
    /\ Called("gdown.download") /\ Called("Llama")
    /\ llm # 0

\* C2: the model handle is constructed at most once; once a construction has
\* completed, every load_model call returns that same handle, constructs
\* nothing and leaves the stored handle alone.
C2_ModelLoadedOnce ==
    [][ /\ built' <= 1
        /\ llm' # 0 => (llm' = cache' /\ llm' = 1)
        /\ cache # 0 =>
            /\ cache' = cache
            /\ built' = built
            /\ (pc = "content" /\ pc' = "action") =>
                    (llm' = cache /\ ~(\E i \in 1..Len(trace') : trace'[i] = "Llama"))
      ]_vars

\* A later run called load_model and got the stored handle without constructing.
C2_Witness ==
    /\ cache = 1 /\ built = 1
    /\ Called("load_model") /\ ~Called("Llama")
    /\ llm = 1

\* C3: when the lookup fails, whatever the exception, get_wiki_content returns
\* None, shows exactly one st.error message and does not raise: the run goes on.
C3_LookupFailureHandled ==
    LookupFailed =>
        /\ wiki_text = None
        /\ errors = 1
        /\ Count("st.error") = 1
        /\ status # "crashed"
        /\ pc \in {"content", "end", "idle"}

\* get_wiki_content has returned from a lookup that failed with a transport error.
C3_Witness ==
    /\ LookupFailed
    /\ Val(lookup).exc = "ConnectionError"
    /\ pc = "content"

\* C4: in a run where get_wiki_content returned None neither load_model nor
\* summarize_content is called, whatever button started the run, and the run
\* ends at the last line of the script.
C4_NoModelCallWithoutContent ==
    (lookup # None /\ wiki_text = None) =>
        /\ ~Called("load_model") /\ ~Called("Llama")
        /\ ~Called("summarize_content") /\ ~Called("llm")
        /\ llm = 0 /\ genArgs = None /\ result = None
        /\ status # "crashed"
        /\ pc = "idle" => status = "done"

\* "Generate Summary" was clicked, the fetch of that run failed, the run ended normally.
C4_Witness ==
    /\ event = "summary"
    /\ lookup # None /\ wiki_text = None
    /\ pc = "idle" /\ status = "done"

\* C5: with content fetched and "Ask a Question" selected, summarize_content is
\* not called in a run where the question field is empty, clicked or not; a
\* call in this mode needs the click and a non-empty question in the same run.
C5_NoAnswerWithoutQuestion ==
    /\ (Truthy(wiki_text) /\ widgets.action = "Ask a Question"
            /\ widgets.question = "") =>
            (~Called("summarize_content") /\ genArgs = None /\ result = None)
    /\ (genArgs # None /\ widgets.action = "Ask a Question") =>
            /\ event = "answer"
            /\ widgets.question # ""
            /\ Val(genArgs).question = Some(Str(widgets.question))

\* "Get Answer" was clicked with the question field empty and content fetched.
C5_Witness ==
    /\ event = "answer"
    /\ Truthy(wiki_text)
    /\ widgets.action = "Ask a Question" /\ widgets.question = ""
    /\ pc = "idle" /\ status = "done"

\* C6: get_wiki_content returns at most TruncLen characters whenever the lookup
\* succeeds, and the content handed to summarize_content, and interpolated into
\* the prompt, is that value unmodified.
C6_ContentBounded ==
    /\ LookupOk => (wiki_text # None /\ Val(wiki_text).len <= TruncLen)
    /\ genArgs # None =>
            /\ wiki_text # None
            /\ Val(genArgs).content = Val(wiki_text)
            /\ Val(genArgs).content.len <= TruncLen
    /\ prompt # None =>
            /\ \E i \in 1..Len(Val(prompt)) : Val(prompt)[i] = Val(wiki_text)
            /\ \A i \in 1..Len(Val(prompt)) : Val(prompt)[i].len <= TruncLen

\* A page longer than TruncLen was fetched, cut, and passed to summarize_content.
C6_Witness ==
    /\ genArgs # None
    /\ LookupOk /\ Val(lookup).content.len > TruncLen
    /\ Val(genArgs).content.len = TruncLen

\* C7: the template depends on the question alone: None or "" give the
\* summarize template, any non-empty question gives the answer template, and
\* the two prompts for the same topic and content differ, from their first
\* part on.
C7_TemplateByQuestion ==
    pc = "responded" =>
        LET a == Val(genArgs)
            p == Val(prompt)
        IN  /\ a.question \in {None, Some(Str(""))} =>
                    p = SummaryPrompt(a.topic, a.content)
            /\ a.question \notin {None, Some(Str(""))} =>
                    p = AnswerPrompt(a.content, Val(a.question))
            /\ \A q \in ArgQuestions \ {None, Some(Str(""))} :
                    /\ SummaryPrompt(a.topic, a.content) # AnswerPrompt(a.content, Val(q))
                    /\ SummaryPrompt(a.topic, a.content)[1] # AnswerPrompt(a.content, Val(q))[1]

\* summarize_content was called with the empty string as question.
C7_Witness ==
    /\ pc = "responded"
    /\ Val(genArgs).question = Some(Str(""))
    /\ Val(prompt) = SummaryPrompt(Val(genArgs).topic, Val(genArgs).content)

\* C8 (as stated): load_model is called on the action trigger: only in a run
\* started by "Generate Summary" or "Get Answer", right before
\* summarize_content, and not in a run that fetched content without a click.
C8_LoadOnActionTrigger ==
    /\ Called("load_model") => event \in Clicks
    /\ Called("summarize_content") =>
            (Pos("summarize_content") > 1
                /\ trace[Pos("summarize_content") - 1] \in {"load_model", "Llama"})

\* C8 (amended): load_model is called in every run whose fetch returned
\* non-empty content, as soon as the content is there and whether or not an
\* action button was clicked, and in no other run; when a click leads to
\* summarize_content, load_model is the call right before it.
C8_LoadOnContent ==
    /\ Called("load_model") => Truthy(wiki_text)
    /\ (Truthy(wiki_text) /\ pc # "content") => Called("load_model")
    /\ Called("summarize_content") =>
            (Pos("summarize_content") > 1
                /\ trace[Pos("summarize_content") - 1] \in {"load_model", "Llama"})

\* A run started by entering a topic, with no button clicked, called load_model.
C8_Witness ==
    /\ event = "topic"
    /\ Called("load_model")
    /\ pc = "idle" /\ status = "done"

\* For C9: what a download_model call did.
Started(e) == e.started
Wrote(e) == ~e.before /\ e.after
C9_Call(e) ==
    /\ Started(e) <=> ~e.before
    /\ e.before => (~Started(e) /\ e.after /\ ~e.mkdir)

\* C9 (as stated): download_model downloads iff no file is at MODEL_PATH when
\* it is called; with the file there it starts no download, leaves the file and
\* creates nothing; so two calls in a row download at most once.
C9_DownloadIffAbsent ==
    /\ \A i \in 1..Len(dlLog) : C9_Call(dlLog[i])
    /\ Len(dlLog) = 2 => ~(Started(dlLog[1]) /\ Started(dlLog[2]))

\* C9 (amended): download_model starts a download iff no file is at MODEL_PATH
\* when it is called; with the file there it starts no download, leaves the
\* file and creates nothing; of two calls in a row the second starts a download
\* only when the first one failed to put the file in place, and at most one of
\* them writes the file.
C9_DownloadIffAbsentRetry ==
    /\ \A i \in 1..Len(dlLog) : C9_Call(dlLog[i])
    /\ Len(dlLog) = 2 =>
            /\ (Started(dlLog[1]) /\ Started(dlLog[2])) => ~dlLog[1].after
            /\ ~(Wrote(dlLog[1]) /\ Wrote(dlLog[2]))

\* Two calls in a row: the first downloaded the file, the second did nothing.
C9_Witness ==
    /\ Len(dlLog) = 2
    /\ Wrote(dlLog[1])
    /\ dlLog[2].before /\ ~Started(dlLog[2])

\* For C10: what holds of the run at every moment.
C10_Run ==
    /\ genArgs # None =>
            /\ LookupOk
            /\ Val(lookup).content.src = widgets.topic
            /\ Val(genArgs).content = Slice(Val(lookup).content, TruncLen)
            /\ Val(genArgs).topic = Str(widgets.topic)
            /\ event \in Clicks
    /\ (event \in Clicks /\ lookup # None /\ ~Truthy(wiki_text)) =>
            (genArgs = None /\ result = None /\ ~Called("summarize_content"))
    /\ event = "topic" => (genArgs = None /\ result = None)

\* C10 (as stated): every run with a non-empty topic calls get_wiki_content, and
\* summarize_content only gets the content fetched by its own run for the topic
\* entered; a click whose re-fetch fails or is empty generates nothing; a run
\* started by a new topic generates nothing.
C10_RefetchEveryRun ==
    [][ /\ C10_Run'
        /\ (pc # "idle" /\ pc' = "idle" /\ widgets.topic # "") =>
                (\E i \in 1..Len(trace') : trace'[i] = "get_wiki_content")
      ]_vars

\* C10 (amended): every run with a non-empty topic that download_model does not
\* end with an exception calls get_wiki_content; the rest as stated.
C10_RefetchUnlessDownloadFails ==
    [][ /\ C10_Run'
        /\ (pc \notin {"idle", "sidebar"} /\ pc' = "idle" /\ widgets.topic # "") =>
                (\E i \in 1..Len(trace') : trace'[i] = "get_wiki_content")
        /\ (pc = "sidebar" /\ pc' = "idle") =>
                (status' = "crashed" /\ trace'[Len(trace')] = "gdown.download")
      ]_vars

\* An action button was clicked after content had been shown, the re-fetch of
\* the click's run failed, and nothing was generated.
C10_Witness ==
    /\ event \in Clicks
    /\ lastFetch # None /\ Truthy(lastFetch)
    /\ LookupFailed
    /\ genArgs = None
    /\ pc = "idle" /\ status = "done"

====
